---- MODULE Spec2Model ----
(***************************************************************************)
(* Model of server.js: the scammer-report store.  One JSON document        *)
(* (DATA_FILE) holds the whole collection, the uploads directory holds the *)
(* evidence files.  Every express handler is synchronous (readFileSync,    *)
(* writeFileSync, unlinkSync), so one handler is one atomic step; the only *)
(* asynchronous stage is multer's upload, which runs before the POST       *)
(* handler and leaves the request in flight.                               *)
(***************************************************************************)
EXTENDS Integers, Sequences, FiniteSets, TLC

\* ---------------------------------------------------------------- bounds
MaxClock == 1        \* Date.now() ranges over 0..MaxClock
MaxRand == 1         \* Math.round(Math.random() * 1E9) ranges over 0..MaxRand
MaxFiles == 1        \* files uploaded with one request (the code allows 6)
MaxInflight == 1     \* POST requests between upload and handler
MaxReports == 2      \* reports a POST handler finds in the document at most

\* ------------------------------------------------------------------ text
\* A text is a sequence of characters; a field missing from the request
\* (undefined in JavaScript) is the value Absent.
Absent == <<"undefined">>

\* !x of JavaScript for a string or undefined
Falsy(x) == x = Absent \/ x = <<>>

IsSpace(c) == c = " "

RECURSIVE TrimStart(_)
TrimStart(s) ==
    IF s # <<>> /\ IsSpace(Head(s)) THEN TrimStart(Tail(s)) ELSE s

RECURSIVE TrimEnd(_)
TrimEnd(s) ==
    IF s # <<>> /\ IsSpace(s[Len(s)]) THEN TrimEnd(SubSeq(s, 1, Len(s) - 1)) ELSE s

\* String.prototype.trim
Trim(s) == TrimEnd(TrimStart(s))

LowerChar(c) == IF c = "A" THEN "a" ELSE IF c = "B" THEN "b" ELSE c

\* String.prototype.toLowerCase
ToLowerCase(s) == [i \in 1..Len(s) |-> LowerChar(s[i])]

\* String.prototype.includes
Includes(s, t) ==
    \E i \in 0..(Len(s) - Len(t)) : SubSeq(s, i + 1, i + Len(t)) = t

\* ------------------------------------------------------ time and strings
\* Date.now().toString(): the decimal string of the millisecond count
NumToString(t) == <<"dec", t>>

\* new Date().toISOString(): the ISO-8601 string of the millisecond count
ToISOString(t) == <<"iso", t>>

\* new Date(isoString), used as a number by the comparator of sort
DateValue(s) == s[2]

\* ------------------------------------------------------------- documents
\* JSON.stringify(scammers, null, 2): the text of a complete document
JSONstringify(scammers) == [kind |-> "json", value |-> scammers]

\* what a write that failed after truncating the file leaves behind when
\* part of the text was written
Truncated == [kind |-> "partial", value |-> <<>>]

\* what it leaves behind when nothing was written: a file of zero bytes
Emptied == [kind |-> "empty", value |-> <<>>]

\* JSON.parse succeeds on a complete document only
Parses(file) == file.kind = "json"

JSONparse(file) == file.value

\* readScammers(): fault is fs.readFileSync throwing; a document that does
\* not parse throws too; both are caught and read as the empty array
readScammers(file, fault) ==
    IF fault \/ ~Parses(file) THEN <<>> ELSE JSONparse(file)

\* outcomes of fs.writeFileSync(DATA_FILE, ...): written; thrown before the
\* file was opened (file intact); thrown after it was opened with flag 'w',
\* with part of the text written (truncated) or none of it (emptied)
WriteOutcomes == {"ok", "intact", "truncated", "emptied"}

\* writeScammers(): the document after the call
writeScammersFile(file, scammers, w) ==
    CASE w = "ok" -> JSONstringify(scammers)
      [] w = "intact" -> file
      [] w = "truncated" -> Truncated
      [] w = "emptied" -> Emptied

\* writeScammers(): the value returned
writeScammersReturns(w) == w = "ok"

\* ------------------------------------------------------------- sequences
Range(s) == {s[i] : i \in 1..Len(s)}

RemoveAt(s, i) == SubSeq(s, 1, i - 1) \o SubSeq(s, i + 1, Len(s))

\* Array.prototype.findIndex(s => s.id === id), 0 for -1
RECURSIVE FindIndexFrom(_, _, _)
FindIndexFrom(s, id, i) ==
    IF i > Len(s) THEN 0
    ELSE IF s[i].id = id THEN i
    ELSE FindIndexFrom(s, id, i + 1)

\* findIndex(s => s.id = id): an assignment for the comparison, true of the
\* first element
findIndexAssigning(s, id) == IF s = <<>> THEN 0 ELSE 1

findIndex(s, id) == FindIndexFrom(s, id, 1)

\* the comparator (a, b) => new Date(b.createdAt) - new Date(a.createdAt)
Compare(a, b) == DateValue(b.createdAt) - DateValue(a.createdAt)

\* insert r into the sorted sequence s after every element that does not
\* compare greater than it (Array.prototype.sort is stable)
RECURSIVE InsertSorted(_, _)
InsertSorted(s, r) ==
    IF s = <<>> THEN <<r>>
    ELSE IF Compare(Head(s), r) <= 0 THEN <<Head(s)>> \o InsertSorted(Tail(s), r)
    ELSE <<r>> \o s

\* scammers.sort(comparator)
RECURSIVE sort(_)
sort(s) ==
    IF s = <<>> THEN <<>>
    ELSE InsertSorted(sort(SubSeq(s, 1, Len(s) - 1)), s[Len(s)])

\* ---------------------------------------------------------------- inputs
Body(n, t, p, w, d) ==
    [name |-> n, scamType |-> t, phone |-> p, website |-> w, description |-> d]

\* request bodies of POST /api/scammer
Bodies ==
    { Body(Absent, <<"b">>, Absent, Absent, Absent),
      Body(<<>>, Absent, Absent, Absent, Absent),
      Body(<<"b">>, Absent, Absent, Absent, Absent),
      Body(<<"b">>, <<>>, <<"a">>, Absent, Absent),
      Body(<<" ">>, <<"b">>, Absent, Absent, Absent),
      Body(<<" ", "b", " ">>, <<"b", " ">>, <<" ", "A">>, <<"b", " ">>, <<" ", "B", " ", "b">>) }

\* values of the query parameter q of GET /api/search
Queries == {Absent, <<>>, <<"A">>, <<"B">>}

Times == 0..MaxClock

\* values of the path parameter of DELETE /api/scammer/:id
Ids == {NumToString(t) : t \in Times}

RandSeqs == UNION {[1..n -> 0..MaxRand] : n \in 0..MaxFiles}

\* the filename function of multer.diskStorage: field name, Date.now() and
\* the random suffix (every upload of the model has the same extension)
filename(t, r) == <<"evidence", t, r>>

\* ----------------------------------------------------------------- state
VARIABLES
    dataFile,    \* the content of DATA_FILE (data/scammers.json)
    uploads,     \* the names of the files in the uploads directory
    now,         \* the clock read by Date.now() and new Date()
    inflight,    \* POST requests whose files multer has stored
    last         \* the last request handled and the response sent to it

vars == <<dataFile, uploads, now, inflight, last>>

NoReport ==
    [id |-> <<"none">>, name |-> <<>>, scamType |-> <<>>, phone |-> <<>>,
     website |-> <<>>, description |-> <<>>, evidence |-> <<>>,
     createdAt |-> <<"none">>]

NoResponse ==
    [op |-> "none", arg |-> <<>>, status |-> 0, result |-> <<>>,
     report |-> NoReport, pre |-> JSONstringify(<<>>), preUploads |-> {},
     read |-> "no", wrote |-> "no"]

\* what the handlers record of a request: the operation, its argument, the
\* status and body of the response, the report created or deleted, the
\* document and the uploads directory before it, whether readScammers ran
\* ("no", "ok" or "fault") and how writeFileSync ended ("no" when not called)
Response(op, arg, status, result, report, read, wrote) ==
    [op |-> op, arg |-> arg, status |-> status, result |-> result,
     report |-> report, pre |-> dataFile, preUploads |-> uploads,
     read |-> read, wrote |-> wrote]

ReadAs(fault) == IF fault THEN "fault" ELSE "ok"

\* lines 15-30: both directories exist and DATA_FILE holds []
Init ==
    /\ dataFile = JSONstringify(<<>>)
    /\ uploads = {}
    /\ now = 0
    /\ inflight = <<>>
    /\ last = NoResponse

\* a millisecond passes
Tick ==
    /\ now < MaxClock
    /\ now' = now + 1
    /\ last' = NoResponse
    /\ UNCHANGED <<dataFile, uploads, inflight>>

\* upload.array('evidence', 6): multer stores the files of a POST request
\* under generated names before the handler is called
PostUpload(body, rs) ==
    /\ Len(inflight) < MaxInflight
    /\ LET files == [i \in 1..Len(rs) |-> filename(now, rs[i])]
       IN /\ uploads' = uploads \cup Range(files)
          /\ inflight' = Append(inflight, [body |-> body, files |-> files])
          /\ last' = NoResponse
    /\ UNCHANGED <<dataFile, now>>

\* a validation that forgets scamType
InvalidNameOnly(body) == Falsy(body.name)

\* the validation of POST /api/scammer
Invalid(body) == Falsy(body.name) \/ Falsy(body.scamType)

\* the newScammer object; t is Date.now(), u the time of new Date()
NewScammer(body, files, t, u) ==
    [id |-> NumToString(t),
     name |-> Trim(body.name),
     scamType |-> Trim(body.scamType),
     phone |-> IF Falsy(body.phone) THEN <<>> ELSE Trim(body.phone),
     website |-> IF Falsy(body.website) THEN <<>> ELSE Trim(body.website),
     description |-> IF Falsy(body.description) THEN <<>> ELSE Trim(body.description),
     evidence |-> files,
     createdAt |-> ToISOString(u)]

\* the handler of POST /api/scammer on the i-th request in flight; d is the
\* time that passes between Date.now() and new Date()
PostScammer(i, d, fault, w) ==
    /\ i \in 1..Len(inflight)
    /\ inflight' = RemoveAt(inflight, i)
    /\ LET req == inflight[i]
       IN IF Invalid(req.body)
          THEN /\ d = 0 /\ ~fault /\ w = "ok"   \* returns before any of them is used
               /\ last' = Response("create", req, 400, <<>>, NoReport, "no", "no")
               /\ UNCHANGED <<dataFile, uploads, now>>
          ELSE LET newScammer == NewScammer(req.body, req.files, now, now + d)
                   scammers == readScammers(dataFile, fault)
                   pushed == Append(scammers, newScammer)
               IN /\ now + d <= MaxClock
                  /\ Len(scammers) < MaxReports
                  /\ now' = now + d
                  /\ dataFile' = writeScammersFile(dataFile, pushed, w)
                  /\ last' = Response("create", req,
                                      IF writeScammersReturns(w) THEN 201 ELSE 500,
                                      <<>>, newScammer, ReadAs(fault), w)
                  /\ UNCHANGED uploads

\* the files left in the uploads directory when the forEach of the DELETE
\* handler has unlinked the first k files of evidence
Unlinked(dir, evidence, k) == dir \ {evidence[j] : j \in 1..k}

\* the handler of DELETE /api/scammer/:id; k = 0 when no unlinkSync throws,
\* otherwise the unlinkSync of the k-th evidence file throws
DeleteScammer(id, fault, k, w) ==
    LET scammers == readScammers(dataFile, fault)
        scammerIndex == findIndex(scammers, id)
    IN IF scammerIndex = 0
       THEN /\ k = 0 /\ w = "ok"                 \* returns before either is used
            /\ last' = Response("delete", id, 404, <<>>, NoReport, ReadAs(fault), "no")
            /\ UNCHANGED <<dataFile, uploads, now, inflight>>
       ELSE LET scammer == scammers[scammerIndex]
            IN /\ k \in 0..Len(scammer.evidence)
               /\ IF k > 0
                  THEN /\ scammer.evidence[k] \in Unlinked(uploads, scammer.evidence, k - 1)
                       /\ w = "ok"               \* the catch block: nothing is written
                       /\ uploads' = Unlinked(uploads, scammer.evidence, k - 1)
                       /\ last' = Response("delete", id, 500, <<>>, scammer, ReadAs(fault), "no")
                       /\ UNCHANGED dataFile
                  ELSE /\ uploads' = Unlinked(uploads, scammer.evidence, Len(scammer.evidence))
                       /\ dataFile' = writeScammersFile(dataFile,
                                           RemoveAt(scammers, scammerIndex), w)
                       /\ last' = Response("delete", id,
                                           IF writeScammersReturns(w) THEN 200 ELSE 500,
                                           <<>>, scammer, ReadAs(fault), w)
               /\ UNCHANGED <<now, inflight>>

\* a handler whose read lets the error of an unreadable, unparsable or empty
\* document through to the catch block of the handler
GetScammersNoCatch(fault) ==
    /\ last' = IF fault \/ ~Parses(dataFile)
               THEN Response("list", <<>>, 500, <<>>, NoReport, "fault", "no")
               ELSE Response("list", <<>>, 200, sort(JSONparse(dataFile)),
                             NoReport, "ok", "no")
    /\ UNCHANGED <<dataFile, uploads, now, inflight>>

\* the handler of GET /api/scammers
GetScammers(fault) ==
    /\ last' = Response("list", <<>>, 200, sort(readScammers(dataFile, fault)),
                        NoReport, ReadAs(fault), "no")
    /\ UNCHANGED <<dataFile, uploads, now, inflight>>

\* the predicate of scammers.filter in GET /api/search
Matches(scammer, searchTerm) ==
    \/ Includes(ToLowerCase(scammer.name), searchTerm)
    \/ Includes(ToLowerCase(scammer.scamType), searchTerm)
    \/ (~Falsy(scammer.phone) /\ Includes(scammer.phone, searchTerm))
    \/ (~Falsy(scammer.description)
            /\ Includes(ToLowerCase(scammer.description), searchTerm))

\* scammers.filter(predicate)
Filter(scammers, searchTerm) ==
    LET Keep(scammer) == Matches(scammer, searchTerm)
    IN SelectSeq(scammers, Keep)

\* a test that takes only an absent q for empty (q === undefined)
EmptyQueryAbsentOnly(q) == q = Absent

\* the test !q of GET /api/search
EmptyQuery(q) == Falsy(q)

\* a handler that saves the array it has sorted in place
SearchSaving(q, fault) ==
    /\ last' = Response("search", q, 200,
                        IF Falsy(q) THEN <<>>
                        ELSE sort(Filter(readScammers(dataFile, fault), ToLowerCase(q))),
                        NoReport, IF Falsy(q) THEN "no" ELSE ReadAs(fault), "ok")
    /\ dataFile' = IF Falsy(q) THEN dataFile
                   ELSE JSONstringify(sort(readScammers(dataFile, fault)))
    /\ UNCHANGED <<uploads, now, inflight>>

\* the handler of GET /api/search
Search(q, fault) ==
    /\ IF EmptyQuery(q)
       THEN /\ ~fault                            \* returns before readScammers
            /\ last' = Response("search", q, 200, <<>>, NoReport, "no", "no")
       ELSE last' = Response("search", q, 200,
                             sort(Filter(readScammers(dataFile, fault), ToLowerCase(q))),
                             NoReport, ReadAs(fault), "no")
    /\ UNCHANGED <<dataFile, uploads, now, inflight>>

Next ==
    \/ Tick
    \/ \E body \in Bodies, rs \in RandSeqs : PostUpload(body, rs)
    \/ \E i \in 1..MaxInflight, d \in 0..1, fault \in BOOLEAN, w \in WriteOutcomes :
          PostScammer(i, d, fault, w)
    \/ \E id \in Ids, fault \in BOOLEAN, k \in 0..MaxFiles, w \in WriteOutcomes :
          DeleteScammer(id, fault, k, w)
    \/ \E fault \in BOOLEAN : GetScammers(fault)
    \/ \E q \in Queries, fault \in BOOLEAN : Search(q, fault)

Spec == Init /\ [][Next]_vars

\* ------------------------------------------------------------ properties
\* the collection a reader of the document finds when nothing fails
Persisted(file) == IF Parses(file) THEN JSONparse(file) ELSE <<>>

\* what List() returns of the document when nothing fails
Listed(file) == sort(Persisted(file))

Count(s, id) == Cardinality({i \in 1..Len(s) : s[i].id = id})

\* C1: no two Reports of the persisted collection have the same id, also
\* when Creates are handled at the same clock instant.
C1_UniqueIds ==
    \A i, j \in 1..Len(Persisted(dataFile)) :
        i # j => Persisted(dataFile)[i].id # Persisted(dataFile)[j].id

\* C2: no Create's addition is overwritten by another mutating operation:
\* after a Create that persisted, every Report that was in the collection
\* before it (each added by an earlier successful Create) is still listed.
C2_NoLostUpdate ==
    (last.op = "create" /\ last.status = 201)
        => \A r \in Range(Persisted(last.pre)) : r \in Range(Listed(dataFile))

\* C3: every filename in the evidence of every persisted Report names a
\* file present in the uploads directory (no handler is ever in progress
\* in a state: each runs to completion in one step).
C3_ReferentialIntegrity ==
    \A r \in Range(Persisted(dataFile)) :
        \A f \in Range(r.evidence) : f \in uploads

\* C4: a Delete that succeeded has removed every evidence file of the
\* Report, List() no longer returns a Report with that id, and a second
\* Delete of the id would answer NotFound.
C4_DeleteRemoves ==
    (last.op = "delete" /\ last.status = 200)
        => /\ \A f \in Range(last.report.evidence) : f \notin uploads
           /\ Count(Listed(dataFile), last.arg) = 0
           /\ findIndex(readScammers(dataFile, FALSE), last.arg) = 0

\* t is s without its leading and trailing whitespace
IsTrimOf(t, s) ==
    /\ t = <<>> \/ (t[1] # " " /\ t[Len(t)] # " ")
    /\ \E i \in 0..Len(s) :
          /\ i + Len(t) <= Len(s)
          /\ SubSeq(s, i + 1, i + Len(t)) = t
          /\ \A j \in (1..i) \cup ((i + Len(t) + 1)..Len(s)) : s[j] = " "

\* the stored text of an input field: its trimmed value, empty when absent
StoredAs(t, input) == IF input = Absent THEN t = <<>> ELSE IsTrimOf(t, input)

\* C5: after a successful Create, List() holds exactly one Report with the
\* returned id, whose text fields are the trimmed inputs (empty for absent
\* optional fields) and whose evidence is the supplied filename list.
C5_RoundTrip ==
    (last.op = "create" /\ last.status = 201)
        => LET listed == Listed(dataFile)
               same == {i \in 1..Len(listed) : listed[i].id = last.report.id}
           IN /\ Cardinality(same) = 1
              /\ \A i \in same :
                    /\ StoredAs(listed[i].name, last.arg.body.name)
                    /\ StoredAs(listed[i].scamType, last.arg.body.scamType)
                    /\ StoredAs(listed[i].phone, last.arg.body.phone)
                    /\ StoredAs(listed[i].website, last.arg.body.website)
                    /\ StoredAs(listed[i].description, last.arg.body.description)
                    /\ listed[i].evidence = last.arg.files

\* C6: a Create whose write of the document fails answers with an error
\* and leaves the collection every later reader finds as it was before.
C6_CreateAllOrNothing ==
    (last.op = "create" /\ last.wrote \in {"intact", "truncated", "emptied"})
        => /\ last.status = 500
           /\ Persisted(dataFile) = Persisted(last.pre)

\* C7: a Create whose name or scamType is missing or empty answers 400 and
\* leaves the document unchanged.
C7_ValidationRejects ==
    (/\ last.op = "create"
     /\ \/ last.arg.body.name \in {Absent, <<>>}
        \/ last.arg.body.scamType \in {Absent, <<>>})
        => /\ last.status = 400
           /\ dataFile = last.pre

\* a Create without scamType was rejected while the collection held a Report
C7_Witness ==
    /\ last.op = "create"
    /\ last.status = 400
    /\ last.arg.body.name \notin {Absent, <<>>}
    /\ last.arg.body.scamType = Absent
    /\ Persisted(dataFile) # <<>>

Occurrences(s, r) == Cardinality({i \in 1..Len(s) : s[i] = r})

\* s holds every element of t exactly as often as t does, and nothing else
SameReports(s, t) ==
    /\ Len(s) = Len(t)
    /\ \A r \in Range(s) \cup Range(t) : Occurrences(s, r) = Occurrences(t, r)

\* a Report with a strictly later createdAt comes first
NewestFirst(s) ==
    \A i, j \in 1..Len(s) :
        s[i].createdAt[2] > s[j].createdAt[2] => i < j

\* C8: List() returns every Report of the persisted collection exactly
\* once, newest first.
C8_ListComplete ==
    last.op = "list"
        => /\ last.status = 200
           /\ SameReports(last.result, Persisted(dataFile))
           /\ NewestFirst(last.result)

ContainsIgnoringCase(s, q) == Includes(ToLowerCase(s), ToLowerCase(q))

\* the match as the claim words it: q in name, scamType or description
\* without regard to case, or q itself in phone
ClaimedMatch(r, q) ==
    \/ ContainsIgnoringCase(r.name, q)
    \/ ContainsIgnoringCase(r.scamType, q)
    \/ ContainsIgnoringCase(r.description, q)
    \/ Includes(r.phone, q)

\* C9: for a non-empty q, Search(q) returns exactly the Reports that match,
\* newest first (stated of the searches whose read of the document
\* succeeded).
C9_SearchExact ==
    (last.op = "search" /\ last.arg \notin {Absent, <<>>} /\ last.read = "ok")
        => LET Claimed(r) == ClaimedMatch(r, last.arg)
           IN /\ SameReports(last.result, SelectSeq(Persisted(dataFile), Claimed))
              /\ NewestFirst(last.result)

\* C10: Search with an empty or absent query answers the empty sequence
\* whatever the collection holds, without reading or changing the document.
C10_EmptyQuery ==
    (last.op = "search" /\ last.arg \in {Absent, <<>>})
        => /\ last.status = 200
           /\ last.result = <<>>
           /\ last.read = "no"
           /\ dataFile = last.pre

\* Search("") answered while the collection held a Report
C10_Witness ==
    /\ last.op = "search"
    /\ last.arg = <<>>
    /\ last.result = <<>>
    /\ Persisted(dataFile) # <<>>

\* the read of the document by the last handler failed: readFileSync threw,
\* or it returned a text that JSON.parse rejects
ReadFailed ==
    \/ last.read = "fault"
    \/ (last.read = "ok" /\ ~Parses(last.pre))

\* C11: when the read of a document that is neither missing nor empty
\* fails, List, Search, Create and Delete answer with an error (stated of
\* the documents that hold a Report or do not parse).
C11_ReadErrorsSurface ==
    (/\ ReadFailed
     /\ last.pre.kind # "empty"
     /\ (Persisted(last.pre) # <<>> \/ last.pre.kind = "partial"))
        => last.status = 500

\* C12: on an empty document List and Search answer 200 with the empty
\* sequence.
C12_EmptyStoreReadsEmpty ==
    (last.op \in {"list", "search"} /\ last.pre.kind = "empty")
        => /\ last.status = 200
           /\ last.result = <<>>

\* List() has read a document of zero bytes
C12_Witness ==
    /\ last.op = "list"
    /\ last.read = "ok"
    /\ last.pre.kind = "empty"
    /\ dataFile.kind = "empty"

C14_ReadsDoNotMutate ==
    last.op \in {"list", "search"}
        => /\ dataFile = last.pre
           /\ uploads = last.preUploads

\* a Search that read two Reports stored oldest first, with a file uploaded
C14_Witness ==
    /\ last.op = "search"
    /\ last.read = "ok"
    /\ Len(Persisted(dataFile)) = 2
    /\ Persisted(dataFile) # Listed(dataFile)
    /\ uploads # {}

\* C15: every persisted Report has a name and a scamType that are not
\* empty after trimming.
C15_RequiredFieldsNonEmpty ==
    \A r \in Range(Persisted(dataFile)) :
        /\ \E i \in 1..Len(r.name) : r.name[i] # " "
        /\ \E i \in 1..Len(r.scamType) : r.scamType[i] # " "

\* C16: a persisted Report stays in the collection unchanged over every
\* request but a Delete of its own id that succeeds.
C16_ReportsStay ==
    \A r \in Range(Persisted(last.pre)) :
        \/ r \in Range(Persisted(dataFile))
        \/ (last.op = "delete" /\ last.status = 200 /\ last.arg = r.id)

\* C17: a Delete unlinks only evidence files of the Report it deletes,
\* leaves every other Report as it was, and no file it unlinked is named by
\* a Report that remains.
C17_DeleteFrame ==
    last.op = "delete"
        => /\ (last.preUploads \ uploads) \subseteq Range(last.report.evidence)
           /\ \A r \in Range(Persisted(last.pre)) :
                 r # last.report => r \in Range(Persisted(dataFile))
           /\ \A r \in Range(Persisted(dataFile)) :
                 \A f \in Range(r.evidence) : f \notin (last.preUploads \ uploads)

\* C18: a Delete of an id that no Report of the collection has answers 404
\* and leaves the document and the uploads directory as they were.
C18_DeleteAbsent ==
    (last.op = "delete" /\ Count(Persisted(last.pre), last.arg) = 0)
        => /\ last.status = 404
           /\ dataFile = last.pre
           /\ uploads = last.preUploads

\* a Delete of an absent id answered on a collection that holds a Report
\* with an evidence file
C18_Witness ==
    /\ last.op = "delete"
    /\ last.status = 404
    /\ last.read = "ok"
    /\ \E r \in Range(Persisted(dataFile)) :
          r.id # last.arg /\ r.evidence # <<>> /\ Range(r.evidence) \subseteq uploads

\* C19: a Delete that has unlinked the evidence files and then fails to
\* persist answers 500, and the Report is still listed with its files gone.
C19_DeleteThenWriteFails ==
    (/\ last.op = "delete"
     /\ last.wrote \in {"intact", "truncated", "emptied"}
     /\ last.report.evidence # <<>>)
        => /\ last.status = 500
           /\ last.report \in Range(Listed(dataFile))
           /\ \A f \in Range(last.report.evidence) : f \notin uploads

====
